---- MODULE Spec2Model ----
(***************************************************************************)
(* A model of the INI reader of src/src/iniConfig.cpp: class Config with   *)
(* loadFromFile(path, err) and get(section, key, default_val).             *)
(*                                                                         *)
(* A std::string is a sequence of one-character strings.  The store data_  *)
(* (unordered_map<string, unordered_map<string, string>>) is a function    *)
(* from the section names it holds to functions from keys to values.       *)
(* A file is the sequence of characters std::ifstream delivers; GetLines   *)
(* cuts it the way the std::getline loop does.                             *)
(***************************************************************************)
EXTENDS Integers, Sequences, FiniteSets, TLC

VARIABLES fs,        \* the file system: path -> file text, or NoFile
          data_,     \* Config::data_
          err,       \* the caller's std::string err, passed by reference to every load
          lastLoad,  \* <<>> before any load, then <<[path, ret]>>: the argument and
                     \* the return value of the last loadFromFile call
          before,    \* what data_ held when the last loadFromFile call began
          got        \* <<>>, or <<[section, key, default_val, result]>>: the last get
                     \* call made since the last load

vars == <<fs, data_, err, lastLoad, before, got>>

----------------------------------------------------------------------------
(* Bounds of the explored inputs.                                          *)

\* SpecParse: every file text of at most MaxFileLen characters over Chars
MaxFileLen == 4
\* SpecParse: every file of at most MaxLines lines drawn from SampleLines
MaxLines == 3
\* Spec: every file of at most MaxSeqLines lines drawn from SampleLines
MaxSeqLines == 2
\* SpecGet: every file of at most MaxGetLines lines drawn from SampleLines
MaxGetLines == 1

----------------------------------------------------------------------------
(* Characters and strings.                                                 *)

VT == "\\v"   \* stands for the vertical tab, which TLA+ strings cannot spell

\* std::isspace in the "C" locale
IsSpace(c) == c \in {" ", "\t", "\n", VT, "\f", "\r"}

\* std::string::npos
Npos == -1

Min2(a, b) == IF a < b THEN a ELSE b

\* s.substr(pos, n), pos <= s.size(): at most n characters from 0-based pos
Substr(s, pos, n) == SubSeq(s, pos + 1, Min2(pos + n, Len(s)))

\* s.substr(pos): the rest of s from 0-based pos
SubstrFrom(s, pos) == SubSeq(s, pos + 1, Len(s))

\* s.find(c): the 0-based position of the first c in s, or npos
RECURSIVE FindFrom(_, _, _)
FindFrom(s, c, i) ==
    IF i >= Len(s) THEN Npos
    ELSE IF s[i + 1] = c THEN i
    ELSE FindFrom(s, c, i + 1)

Find(s, c) == FindFrom(s, c, 0)

\* trim: "while (b < e && isspace(s[b])) ++b"
RECURSIVE SkipLeading(_, _, _)
SkipLeading(s, b, e) ==
    IF b < e /\ IsSpace(s[b + 1]) THEN SkipLeading(s, b + 1, e) ELSE b

\* trim: "while (e > b && isspace(s[e - 1])) --e"
RECURSIVE SkipTrailing(_, _, _)
SkipTrailing(s, b, e) ==
    IF e > b /\ IsSpace(s[e]) THEN SkipTrailing(s, b, e - 1) ELSE e

trim(s) ==
    LET b == SkipLeading(s, 0, Len(s))
        e == SkipTrailing(s, b, Len(s))
    IN  Substr(s, b, e - b)

----------------------------------------------------------------------------
(* The store.                                                              *)

EmptyMap == [x \in {} |-> x]

\* the fault of a load that does not clear the store first
ClearKeepsData(data) == data

\* data_.clear()
Clear(data) == EmptyMap

\* the fault of storing with insert(), which keeps the value a key already has
PutIfAbsent(data, section, key, val) ==
    LET bucket == IF section \in DOMAIN data THEN data[section] ELSE EmptyMap
        stored == [k \in DOMAIN bucket \cup {key} |->
                      IF k \in DOMAIN bucket THEN bucket[k] ELSE val]
    IN  [s \in DOMAIN data \cup {section} |->
            IF s = section THEN stored ELSE data[s]]

\* data_[section][key] = val: operator[] creates the section and the key as needed
Put(data, section, key, val) ==
    LET bucket == IF section \in DOMAIN data THEN data[section] ELSE EmptyMap
        stored == [k \in DOMAIN bucket \cup {key} |->
                      IF k = key THEN val ELSE bucket[k]]
    IN  [s \in DOMAIN data \cup {section} |->
            IF s = section THEN stored ELSE data[s]]

\* the fault of a lookup that trims the names it is given
GetTrimmed(data, section, key, default_val) ==
    IF trim(section) \notin DOMAIN data THEN default_val
    ELSE IF trim(key) \notin DOMAIN data[trim(section)] THEN default_val
    ELSE data[trim(section)][trim(key)]

\* Config::get
Get(data, section, key, default_val) ==
    IF section \notin DOMAIN data THEN default_val
    ELSE IF key \notin DOMAIN data[section] THEN default_val
    ELSE data[section][key]

----------------------------------------------------------------------------
(* The body of the getline loop of loadFromFile.                           *)

\* "if (s[0] == ';' || s[0] == '#') continue;"
IsCommentLine(s) == s[1] = ";" \/ s[1] = "#"

\* "if (s.front() == '[' && s.back() == ']')"
IsHeader(s) == s[1] = "[" /\ s[Len(s)] = "]"

\* the fault of a header name taken without trimming
HeaderSectionUntrimmed(s) == Substr(s, 1, Len(s) - 2)

\* "current_section = trim(s.substr(1, s.size() - 2))"
HeaderSection(s) == trim(Substr(s, 1, Len(s) - 2))

\* the fault of splitting at the last '=' (rfind)
FindEqLast(s) ==
    LET at == {i \in 0..(Len(s) - 1) : s[i + 1] = "="}
    IN  IF at = {} THEN Npos ELSE CHOOSE i \in at : \A j \in at : j <= i

\* "auto eq = s.find('=')"
FindEq(s) == Find(s, "=")

\* "std::string key = trim(s.substr(0, eq))"
KeyOf(s, eq) == trim(Substr(s, 0, eq))

\* "std::string val = trim(s.substr(eq + 1))"
RawValOf(s, eq) == trim(SubstrFrom(s, eq + 1))

\* the loop "for (char c : {';', '#'})" that leaves in cpos the earliest position
RECURSIVE CommentPosLoop(_, _, _)
CommentPosLoop(val, cs, cpos) ==
    IF cs = <<>> THEN cpos
    ELSE LET p == Find(val, Head(cs))
             next == IF p # Npos
                     THEN (IF cpos = Npos THEN p ELSE Min2(cpos, p))
                     ELSE cpos
         IN  CommentPosLoop(val, Tail(cs), next)

CommentPos(val) == CommentPosLoop(val, <<";", "#">>, Npos)

\* the fault of cutting at ';' alone
StripCommentSemicolonOnly(val) ==
    LET cpos == Find(val, ";")
    IN  IF cpos # Npos THEN trim(Substr(val, 0, cpos)) ELSE val

\* the fault of not trimming again after the cut
StripCommentNoRetrim(val) ==
    LET cpos == CommentPos(val)
    IN  IF cpos # Npos THEN Substr(val, 0, cpos) ELSE val

\* "if (cpos != npos) val = trim(val.substr(0, cpos))"
StripComment(val) ==
    LET cpos == CommentPos(val)
    IN  IF cpos # Npos THEN trim(Substr(val, 0, cpos)) ELSE val

\* the fault of storing a line without '=' as a key of empty value
ProcessLineKeyOnly(st, line) ==
    LET s == trim(line) IN
    IF Len(s) = 0 THEN st
    ELSE IF IsCommentLine(s) THEN st
    ELSE IF IsHeader(s) THEN [st EXCEPT !.current_section = HeaderSection(s)]
    ELSE LET eq == FindEq(s) IN
         IF eq = Npos
         THEN [st EXCEPT !.data = Put(st.data, st.current_section, s, <<>>)]
         ELSE [st EXCEPT !.data = Put(st.data, st.current_section,
                                      KeyOf(s, eq), StripComment(RawValOf(s, eq)))]

\* one iteration of the loop; st is [data, current_section]
ProcessLine(st, line) ==
    LET s == trim(line) IN
    IF Len(s) = 0 THEN st
    ELSE IF IsCommentLine(s) THEN st
    ELSE IF IsHeader(s) THEN [st EXCEPT !.current_section = HeaderSection(s)]
    ELSE LET eq == FindEq(s) IN
         IF eq = Npos THEN st
         ELSE [st EXCEPT !.data = Put(st.data, st.current_section,
                                      KeyOf(s, eq), StripComment(RawValOf(s, eq)))]

\* the lines successive std::getline calls deliver from the text raw
RECURSIVE GetLines(_)
GetLines(raw) ==
    IF raw = <<>> THEN <<>>
    ELSE LET nl == Find(raw, "\n") IN
         IF nl = Npos THEN <<raw>>
         ELSE <<Substr(raw, 0, nl)>> \o GetLines(SubstrFrom(raw, nl + 1))

\* "while (std::getline(ifs, line)) { ... }" from the state st on
RECURSIVE ParseLines(_, _)
ParseLines(lines, st) ==
    IF lines = <<>> THEN st
    ELSE ParseLines(Tail(lines), ProcessLine(st, Head(lines)))

\* "std::string current_section;" is empty at the top of every load
InitialSection == <<>>

\* "Could not open config file: "
ErrPrefix ==
    <<"C", "o", "u", "l", "d", " ", "n", "o", "t", " ", "o", "p", "e", "n", " ",
      "c", "o", "n", "f", "i", "g", " ", "f", "i", "l", "e", ":", " ">>

\* the fault of a message that leaves the path out
ErrOutNoPath(path, opened, old) == IF opened THEN old ELSE ErrPrefix

\* the fault of clearing err when the load succeeds
ErrOutCleared(path, opened, old) == IF opened THEN <<>> ELSE ErrPrefix \o path

\* "err = "Could not open config file: " + path" on failure; err is not written
\* on success
ErrOut(path, opened, old) == IF opened THEN old ELSE ErrPrefix \o path

\* what data_ holds when loadFromFile(path, err) returns
LoadedData(path, data) ==
    LET cleared == Clear(data) IN
    IF ~fs[path].exists THEN cleared
    ELSE ParseLines(GetLines(fs[path].text),
                    [data |-> cleared, current_section |-> InitialSection]).data

----------------------------------------------------------------------------
(* The files and the calls explored.                                       *)

Chars == {" ", "\n", "=", ";", "#", "[", "]", "a"}

SeqsUpTo(S, n) == UNION {[1..m -> S] : m \in 0..n}

SampleLines ==
    { <<"[", "a", "]">>,
      <<"[", "]">>,
      <<"[", " ", "b", "\t", "]">>,
      <<"a", "=", "a", "\r">>,
      <<" ", "a", " ", "=", "b", " ", ";", "a">>,
      <<"b", "=", "a", "=", "#", ";">>,
      <<"a", " ", "b">>,
      <<"#", "a", "=", "b">> }

\* the text of a file whose lines are ls, each ended by a newline
RECURSIVE JoinLines(_)
JoinLines(ls) ==
    IF ls = <<>> THEN <<>> ELSE Head(ls) \o <<"\n">> \o JoinLines(Tail(ls))

Texts == SeqsUpTo(Chars, MaxFileLen)
         \cup {JoinLines(ls) : ls \in SeqsUpTo(SampleLines, MaxLines)}

SeqTexts == {JoinLines(ls) : ls \in SeqsUpTo(SampleLines, MaxSeqLines)}

GetTexts == {JoinLines(ls) : ls \in SeqsUpTo(SampleLines, MaxGetLines)}

PathA == <<"a">>   \* a file whose text ranges over the explored texts
PathB == <<"b">>   \* a second file, of fixed text
PathX == <<"x">>   \* a path that cannot be opened
Paths == {PathA, PathB, PathX}

TextB == <<"a", "=", "b", "\n", "[", "b", "]", "\n", "b", "=", "a", "\n">>

File(text) == [exists |-> TRUE, text |-> text]
NoFile == [exists |-> FALSE, text |-> <<>>]

FileSystem(text) ==
    [p \in Paths |-> IF p = PathA THEN File(text)
                     ELSE IF p = PathB THEN File(TextB)
                     ELSE NoFile]

\* get is called with these section names and keys, and these defaults
ProbeNames == {<<>>, <<"a">>, <<"b">>, <<"a", " ">>, <<"A">>}
Defaults == {<<>>, <<"d">>}

----------------------------------------------------------------------------
(* The state machine.                                                      *)

\* "Config() = default;" and the caller's empty err
InitStore ==
    /\ data_ = EmptyMap
    /\ err = <<>>
    /\ lastLoad = <<>>
    /\ before = EmptyMap
    /\ got = <<>>

Init == (\E text \in SeqTexts : fs = FileSystem(text)) /\ InitStore

InitParse == (\E text \in Texts : fs = FileSystem(text)) /\ InitStore

InitGet == (\E text \in GetTexts : fs = FileSystem(text)) /\ InitStore

\* bool Config::loadFromFile(const std::string &path, std::string &err)
LoadFromFile(path) ==
    /\ data_' = LoadedData(path, data_)
    /\ err' = ErrOut(path, fs[path].exists, err)
    /\ lastLoad' = <<[path |-> path, ret |-> fs[path].exists]>>
    /\ before' = data_
    /\ got' = <<>>
    /\ UNCHANGED fs

\* std::string Config::get(section, key, default_val) const
GetCall(section, key, default_val) ==
    /\ got' = <<[section |-> section, key |-> key, default_val |-> default_val,
                 result |-> Get(data_, section, key, default_val)]>>
    /\ UNCHANGED <<fs, data_, err, lastLoad, before>>

Load == \E path \in Paths : LoadFromFile(path)

Lookup == \E section \in ProbeNames, key \in ProbeNames, default_val \in Defaults :
              GetCall(section, key, default_val)

Next == Load

NextParse == LoadFromFile(PathA)

NextGet == Load \/ Lookup

\* every sequence of loads of the three paths, the first file over SeqTexts
Spec == Init /\ [][Next]_vars

\* loads of the first file alone, over every text of Texts
SpecParse == InitParse /\ [][NextParse]_vars

\* loads and lookups, the first file over GetTexts
SpecGet == InitGet /\ [][NextGet]_vars

----------------------------------------------------------------------------
(* What the properties below speak of: the last call, the lines of the     *)
(* file it read, and the format of a line stated without the parser.       *)

Loaded == lastLoad # <<>>
Succeeded == Loaded /\ lastLoad[1].ret
Failed == Loaded /\ ~lastLoad[1].ret
Lines == GetLines(fs[lastLoad[1].path].text)

Fresh == [data |-> EmptyMap, current_section |-> <<>>]

\* the parser's state after the first n lines of a file read into a new store
After(lines, n) == ParseLines(SubSeq(lines, 1, n), Fresh)

MinOf(S) == CHOOSE x \in S : \A y \in S : x <= y
MaxOf(S) == CHOOSE x \in S : \A y \in S : x >= y

Contains(s, sub) ==
    \E i \in 0..(Len(s) - Len(sub)) : SubSeq(s, i + 1, i + Len(sub)) = sub

\* s without its leading and trailing whitespace
Trimmed(s) ==
    LET ix == {i \in 1..Len(s) : ~IsSpace(s[i])}
    IN  IF ix = {} THEN <<>> ELSE SubSeq(s, MinOf(ix), MaxOf(ix))

Padded(s) == s # Trimmed(s)

\* the kind of a line, by the first rule of the format that applies to it
Kind(line) ==
    LET t == Trimmed(line) IN
    IF t = <<>> THEN "blank"
    ELSE IF t[1] \in {";", "#"} THEN "comment"
    ELSE IF t[1] = "[" /\ t[Len(t)] = "]" THEN "header"
    ELSE IF \E i \in 1..Len(t) : t[i] = "=" THEN "key/value"
    ELSE "malformed"

Header(line) == Kind(line) = "header"
KeyValue(line) == Kind(line) = "key/value"
Malformed(line) == Kind(line) = "malformed"

\* the name a header line gives: the trimmed text between the brackets
HeaderName(line) ==
    LET t == Trimmed(line) IN Trimmed(SubSeq(t, 2, Len(t) - 1))

\* the position of the first '=' of a key/value line, in the trimmed line
EqAt(line) ==
    LET t == Trimmed(line) IN MinOf({i \in 1..Len(t) : t[i] = "="})

LineKey(line) == Trimmed(SubSeq(Trimmed(line), 1, EqAt(line) - 1))

\* the text after the first '=', trimmed, cut at the earliest ';' or '#', trimmed
LineValue(line) ==
    LET t == Trimmed(line)
        v == Trimmed(SubSeq(t, EqAt(line) + 1, Len(t)))
        c == {i \in 1..Len(v) : v[i] \in {";", "#"}}
    IN  IF c = {} THEN v ELSE Trimmed(SubSeq(v, 1, MinOf(c) - 1))

\* the section in force at line i: the name of the last header before it
SectionAt(lines, i) ==
    LET hs == {j \in 1..(i - 1) : Header(lines[j])}
    IN  IF hs = {} THEN <<>> ELSE HeaderName(lines[MaxOf(hs)])

KeyValueLines(lines) == {i \in 1..Len(lines) : KeyValue(lines[i])}

SamePair(lines, i, j) ==
    /\ SectionAt(lines, i) = SectionAt(lines, j)
    /\ LineKey(lines[i]) = LineKey(lines[j])

\* the (section, key, value) triples a store holds
Entries(data) ==
    UNION {{<<s, k, data[s][k]>> : k \in DOMAIN data[s]} : s \in DOMAIN data}

KeysOf(data) == UNION {DOMAIN data[s] : s \in DOMAIN data}

\* no get call on the probed names tells the two stores apart
SameLookups(d1, d2) ==
    \A s \in DOMAIN d1 \cup DOMAIN d2 \cup ProbeNames,
       k \in KeysOf(d1) \cup KeysOf(d2) \cup ProbeNames,
       d \in Defaults :
        Get(d1, s, k, d) = Get(d2, s, k, d)

RECURSIVE WithoutMalformed(_)
WithoutMalformed(lines) ==
    IF lines = <<>> THEN <<>>
    ELSE IF Malformed(Head(lines)) THEN WithoutMalformed(Tail(lines))
    ELSE <<Head(lines)>> \o WithoutMalformed(Tail(lines))

----------------------------------------------------------------------------
(* The properties.                                                         *)

\* C1: a load of a path that cannot be opened returns false, leaves in err a
\* message that contains the path, and leaves the store empty, whatever it held
\* before: every get then returns its default.
C1_FailedLoadEmpties ==
    \A p \in Paths :
        (Loaded /\ lastLoad[1].path = p /\ ~fs[p].exists) =>
            /\ ~lastLoad[1].ret
            /\ Contains(err, p)
            /\ data_ = EmptyMap
            /\ \A s \in ProbeNames \cup DOMAIN before,
                  k \in ProbeNames \cup KeysOf(before), d \in Defaults :
                   Get(data_, s, k, d) = d

\* a failed load of a store that an earlier successful load had populated
C1_Witness ==
    /\ Failed
    /\ lastLoad[1].path = PathX
    /\ before # EmptyMap
    /\ err = ErrPrefix \o PathX
    /\ data_ = EmptyMap

\* C2: after any sequence of loads the store answers every get as a new store
\* does on which only the last load was made (replacement and idempotence).
C2_LastLoadOnly ==
    Loaded =>
        LET alone == LoadedData(lastLoad[1].path, EmptyMap)
        IN  data_ = alone /\ SameLookups(data_, alone)

\* the second file loaded over the first, whose sections it does not all have
C2_Witness ==
    /\ Succeeded
    /\ lastLoad[1].path = PathB
    /\ before = LoadedData(PathA, EmptyMap)
    /\ \E s \in DOMAIN before : s \notin DOMAIN data_
    /\ data_ # EmptyMap

\* C3: get returns the stored value when the store holds exactly that section
\* and key, character for character, and the default otherwise.
C3_GetExactOrDefault ==
    got # <<>> =>
        LET g == got[1]
            hits == {e \in Entries(data_) : e[1] = g.section /\ e[2] = g.key}
        IN  IF hits = {} THEN g.result = g.default_val
            ELSE \A e \in hits : g.result = e[3]

\* a get of a padded key in a section that holds the unpadded key
C3_Witness ==
    /\ got # <<>>
    /\ got[1].section \in DOMAIN data_
    /\ got[1].key = <<"a", " ">>
    /\ <<"a">> \in DOMAIN data_[got[1].section]
    /\ got[1].default_val = <<"d">>
    /\ got[1].result = <<"d">>

\* C4 as stated: after a successful load, get of every key/value line's
\* section and key returns that line's value.
C4_EveryLineRetrievable ==
    LET lines == Lines IN
    Succeeded =>
        \A i \in KeyValueLines(lines), d \in Defaults :
            Get(data_, SectionAt(lines, i), LineKey(lines[i]), d) = LineValue(lines[i])

\* C4: after a successful load, get of the section and key of every key/value
\* line that no later line of the same section and key follows returns that
\* line's value.
C4_LastLineRetrievable ==
    LET lines == Lines IN
    Succeeded =>
        \A i \in KeyValueLines(lines), d \in Defaults :
            (\A j \in KeyValueLines(lines) : j > i => ~SamePair(lines, i, j)) =>
                Get(data_, SectionAt(lines, i), LineKey(lines[i]), d)
                    = LineValue(lines[i])

\* a padded line with an inline comment under a named section, retrieved
C4_Witness ==
    LET lines == Lines IN
    /\ Succeeded
    /\ \E i \in KeyValueLines(lines) :
          /\ SectionAt(lines, i) # <<>>
          /\ Padded(lines[i])
          /\ Contains(lines[i], <<";">>)
          /\ Get(data_, SectionAt(lines, i), LineKey(lines[i]), <<"d">>)
                 = LineValue(lines[i])

\* C5: a key/value line is split at its first '=': processing it stores, under
\* the current section and the trimmed text before that '=', the text after
\* it, trimmed, cut at the earliest ';' or '#' and trimmed again, and changes
\* nothing else.
C5_SplitAtFirstEq ==
    LET lines == Lines IN
    Succeeded =>
        \A i \in KeyValueLines(lines) :
            LET pre == After(lines, i - 1)
                post == ProcessLine(pre, lines[i])
                mine == <<pre.current_section, LineKey(lines[i]), LineValue(lines[i])>>
            IN  /\ post.current_section = pre.current_section
                /\ mine \in Entries(post.data)
                /\ \A e \in Entries(post.data) \cup Entries(pre.data) :
                       (e[1] # mine[1] \/ e[2] # mine[2]) =>
                           (e \in Entries(post.data) <=> e \in Entries(pre.data))
                /\ \A e \in Entries(post.data) :
                       (e[1] = mine[1] /\ e[2] = mine[2]) => e = mine

\* a line with a second '=' and with '#' before ';' in its value
C5_Witness ==
    LET lines == Lines IN
    /\ Succeeded
    /\ \E i \in KeyValueLines(lines) :
          /\ lines[i] = <<"b", "=", "a", "=", "#", ";">>
          /\ Get(data_, SectionAt(lines, i), <<"b">>, <<>>) = <<"a", "=">>

\* C6: a line that is not blank, not a comment, not a header and has no '='
\* changes neither the mapping nor the current section, the load still
\* succeeds, and the store answers as for the file without such lines.
C6_MalformedSkipped ==
    LET lines == Lines IN
    (Loaded /\ fs[lastLoad[1].path].exists) =>
        /\ lastLoad[1].ret
        /\ \A i \in 1..Len(lines) :
               Malformed(lines[i]) =>
                   ProcessLine(After(lines, i - 1), lines[i]) = After(lines, i - 1)
        /\ LET cleaned == ParseLines(WithoutMalformed(lines), Fresh).data
           IN  data_ = cleaned /\ SameLookups(data_, cleaned)

\* a malformed line between two key/value lines that are both retrievable
C6_Witness ==
    LET lines == Lines IN
    /\ Succeeded
    /\ \E i, j, k \in 1..Len(lines) :
          /\ i < j /\ j < k
          /\ KeyValue(lines[i]) /\ Malformed(lines[j]) /\ KeyValue(lines[k])
          /\ ~SamePair(lines, i, k)
          /\ Get(data_, SectionAt(lines, i), LineKey(lines[i]), <<"d">>)
                 = LineValue(lines[i])
          /\ Get(data_, SectionAt(lines, k), LineKey(lines[k]), <<"d">>)
                 = LineValue(lines[k])

\* C7: the current section after each line is the trimmed name of the last
\* header so far, or empty when there is none or when that header is '[]';
\* every key/value line is stored under the section in force at it.
C7_SectionContext ==
    LET lines == Lines IN
    Succeeded =>
        /\ \A n \in 0..Len(lines) :
               After(lines, n).current_section = SectionAt(lines, n + 1)
        /\ DOMAIN data_ = {SectionAt(lines, i) : i \in KeyValueLines(lines)}
        /\ \A i \in KeyValueLines(lines) :
               LineKey(lines[i]) \in DOMAIN data_[SectionAt(lines, i)]

\* a key after '[]' that follows a named header lands in the top-level section
C7_Witness ==
    LET lines == Lines IN
    /\ Succeeded
    /\ \E h1, h2, i \in 1..Len(lines) :
          /\ h1 < h2 /\ h2 < i
          /\ Header(lines[h1]) /\ HeaderName(lines[h1]) # <<>>
          /\ Header(lines[h2]) /\ HeaderName(lines[h2]) = <<>>
          /\ KeyValue(lines[i])
          /\ DOMAIN data_ = {<<>>}
          /\ Get(data_, <<>>, LineKey(lines[i]), <<"d">>) = LineValue(lines[i])

\* C8: of several key/value lines with the same section and key, get returns
\* the value of the last, and an earlier line's different value is not returned.
C8_LastDuplicateWins ==
    LET lines == Lines IN
    Succeeded =>
        \A i, j \in KeyValueLines(lines) :
            (/\ i < j
             /\ SamePair(lines, i, j)
             /\ \A k \in KeyValueLines(lines) : k > j => ~SamePair(lines, j, k)) =>
                \A d \in Defaults :
                    LET r == Get(data_, SectionAt(lines, j), LineKey(lines[j]), d)
                    IN  /\ r = LineValue(lines[j])
                        /\ LineValue(lines[i]) # LineValue(lines[j]) =>
                               r # LineValue(lines[i])

\* the same key twice with different values on either side of a header
C8_Witness ==
    LET lines == Lines IN
    /\ Succeeded
    /\ \E i, h, j \in 1..Len(lines) :
          /\ i < h /\ h < j
          /\ KeyValue(lines[i]) /\ Header(lines[h]) /\ KeyValue(lines[j])
          /\ SamePair(lines, i, j)
          /\ LineValue(lines[i]) # LineValue(lines[j])
          /\ Get(data_, SectionAt(lines, j), LineKey(lines[j]), <<"d">>)
                 = LineValue(lines[j])

\* C9: no stored section name, key or value has leading or trailing
\* whitespace, no stored value holds ';' or '#', no stored key holds '=' or
\* begins with ';' or '#'; so a get of a padded section or key finds nothing.
C9_StoredTextClean ==
    /\ \A e \in Entries(data_) :
           /\ ~Padded(e[1]) /\ ~Padded(e[2]) /\ ~Padded(e[3])
           /\ \A i \in 1..Len(e[3]) : e[3][i] \notin {";", "#"}
           /\ \A i \in 1..Len(e[2]) : e[2][i] # "="
           /\ e[2] # <<>> => e[2][1] \notin {";", "#"}
    /\ \A s \in DOMAIN data_ : ~Padded(s)
    /\ \A n \in ProbeNames \cup DOMAIN data_ \cup KeysOf(data_), d \in Defaults :
         \A m \in {<<" ">> \o n, n \o <<" ">>} :
           /\ \A k \in ProbeNames \cup KeysOf(data_) : Get(data_, m, k, d) = d
           /\ \A s \in ProbeNames \cup DOMAIN data_ : Get(data_, s, m, d) = d

\* a padded line whose value is followed by a comment, stored clean
C9_Witness ==
    LET lines == Lines IN
    /\ Succeeded
    /\ \E i \in KeyValueLines(lines) :
          /\ lines[i] = <<" ", "a", " ", "=", "b", " ", ";", "a">>
          /\ <<SectionAt(lines, i), <<"a">>, <<"b">>>> \in Entries(data_)

\* C10: a load that returns true leaves err as it was.
C10_ErrKeptOnSuccess ==
    [][(lastLoad' # <<>> /\ lastLoad'[1].ret) => err' = err]_vars

\* a successful load after a failed one: err still holds the failure's message
C10_Witness ==
    /\ Succeeded
    /\ err = ErrPrefix \o PathX

====
